---- MODULE Spec2Model ----
(***************************************************************************)
(* The transcode pipeline of video-player-api (server.js, POST             *)
(* /api/transcode) with the object-store client r2.js, as a state machine. *)
(*                                                                         *)
(* Every `await` of the handler is a suspension point, so each action is   *)
(* the code that runs between two suspension points: the completion of     *)
(* the awaited operation (with its outcome chosen by the environment) and  *)
(* everything the handler does synchronously after it, the catch and       *)
(* finally blocks included.                                                *)
(***************************************************************************)
EXTENDS Integers, Sequences, FiniteSets, TLC

\* ------------------------------------------------------------------ bounds
NumJobs == 2        \* request slots of the server
MaxClock == 1       \* Date.now() ranges over 0..MaxClock
MaxFaults == 1      \* unlinkSync calls the environment lets fail

\* --------------------------------------------------------------- constants
StatusOk == 200             \* res.json(...) with the default status
StatusNotFound == 404       \* res.status(404)
\* A slip in the catch block: res.json(...) without status(500).
StatusDefaulted == StatusOk
StatusServerError == 500    \* res.status(500)

NONE == "none"
NoKey == <<>>       \* undefined, where a key is expected
NoPath == <<>>      \* null, where a scratch path is expected
Jobs == 1..NumJobs
Clock == 0..MaxClock

\* An object key "<category>.<ext>" is the pair <<category, ext>>.
VideoMov == <<"video", "mov">>
VideoMp4 == <<"video", "mp4">>
VideoMP4Upper == <<"video", "MP4">>
SubtitleVtt == <<"subtitle", "vtt">>
Keys == {VideoMov, VideoMp4, VideoMP4Upper, SubtitleVtt}

\* The key the pipeline publishes to: the literal 'video.mp4'.
CanonicalKey == VideoMp4

\* String.prototype.toLowerCase on the extensions in play.
ToLowerCase(ext) ==
    CASE ext = "MP4" -> "mp4"
      [] ext = "MOV" -> "mov"
      [] ext = "VTT" -> "vtt"
      [] OTHER -> ext

\* key.split('.').pop().toLowerCase()
ExtOf(key) == ToLowerCase(key[2])

\* obj.Key.startsWith('video.')
IsVideoKey(key) == key[1] = "video"

\* ListObjectsV2 returns the keys in UTF-8 binary order:
\* "subtitle.vtt" < "video.MP4" < "video.mov" < "video.mp4".
ListingOrder == <<SubtitleVtt, VideoMP4Upper, VideoMov, VideoMp4>>

\* Object contents: an uploaded original, or the pipeline's AAC output.
ObjContent == {"raw", "aac"}

\* listObjects(): response.Contents || [], the keys present, in listing order.
listObjects(st) == SelectSeq(ListingOrder, LAMBDA k : st[k] # NONE)

\* objects.find(obj => obj.Key.startsWith('video.')): the first match or undefined.
FindVideoScan(objs, i) ==
    LET hits == {n \in i..Len(objs) : IsVideoKey(objs[n])}
    IN  IF hits = {} THEN NoKey
        ELSE objs[CHOOSE n \in hits : \A m \in hits : n <= m]

\* A slip in the locate step: falling back to the canonical key when the
\* listing has no video.
FindVideoOrCanonical(objs) ==
    IF FindVideoScan(objs, 1) = NoKey THEN CanonicalKey ELSE FindVideoScan(objs, 1)

FindVideo(objs) == FindVideoScan(objs, 1)

\* Scratch paths: path.join(tmpDir, `input_${Date.now()}.${ext}`) and
\* path.join(tmpDir, `output_${Date.now()}.mp4`).
Exts == {"mov", "mp4"}
Paths == ({"input"} \X Clock \X Exts) \cup ({"output"} \X Clock \X {"mp4"})
InputPathOf(t, ext) == <<"input", t, ext>>
OutputPathOf(t) == <<"output", t, "mp4">>

\* What a scratch file holds: a complete copy of a media object ("media"), the
\* transcoder's complete output ("aac"), or anything else ("junk": an empty or
\* partly written file, the body of a response that is not the object).
FileContent == {"junk", "media", "aac"}

EmptyStore == [k \in Keys |-> NONE]
NoFiles == [p \in Paths |-> NONE]

VARIABLES
    store,      \* the bucket: key -> content, NONE when absent
    files,      \* local storage: scratch path -> content, NONE when absent
    now,        \* Date.now()
    alive,      \* the server process is running
    faults,     \* unlinkSync calls that have failed so far
    r2,         \* the names the loaded r2 module exports
    job         \* per request slot: the handler's locals and what it has done

vars == <<store, files, now, alive, faults, r2, job>>

\* module.exports of r2.js
R2Exports == {"getPresignedUploadUrl", "listObjects", "deleteObject"}

\* const { ..., uploadFile } = require('./r2'): a function only if exported.
UploadFileIsFunction == "uploadFile" \in r2

IdleJob ==
    [pc |-> "idle",
     \* the handler's locals
     key |-> NoKey, inputPath |-> NoPath, outputPath |-> NoPath,
     \* the response: status, body.key, and what body.error reports
     status |-> 0, bodyKey |-> NoKey, error |-> NONE,
     \* what happened: the stages begun, in order, and the outcome of each
     \* awaited operation (list, download, transcoder, upload, delete)
     stages |-> <<>>, ls |-> NONE, dl |-> NONE, ff |-> NONE, up |-> NONE,
     rm |-> NONE, redirects |-> 0,
     \* the store requests issued, the store when the request arrived, the
     \* scratch files this request created, how the finally block ended
     puts |-> {}, dels |-> {}, store0 |-> EmptyStore, created |-> {},
     cleanup |-> NONE,
     \* the responses sent, and the paths unlinkSync was called on
     responses |-> 0, unlinks |-> {},
     \* the write stream on the input path has finished and been closed
     closed |-> FALSE,
     \* the keys that uploads wrote between this request's put and its end
     later |-> {}]

\* A bucket may already hold an object written by other means than an issued
\* upload URL (whose keys are lower-cased).
InitialStores == {EmptyStore, [EmptyStore EXCEPT ![VideoMP4Upper] = "raw"]}

InitCommon ==
    /\ store \in InitialStores
    /\ files = NoFiles
    /\ now = 0
    /\ alive = TRUE
    /\ faults = 0
    /\ job = [j \in Jobs |-> IdleJob]

Init == InitCommon /\ r2 = R2Exports

NoneInFlight == \A j \in Jobs : job[j].pc = "idle"

\* A request is served in the lowest idle slot.
FreeSlot(j) == job[j].pc = "idle" /\ \A i \in 1..(j - 1) : job[i].pc # "idle"

\* ------------------------------------------------------------ store client
\* uploadFile(key, localPath, contentType): put the file's content under key.
uploadFile(st, key, content) == [st EXCEPT ![key] = content]

\* A slip in the retire step: clearing the bucket as DELETE /api/video does.
deleteEveryObject(st, key) == [k \in Keys |-> NONE]

\* deleteObject(key): DeleteObjectCommand.
deleteObject(st, key) == [st EXCEPT ![key] = NONE]

\* ----------------------------------------------------------------- cleanup
\* The finally block: unlinkSync(inputPath) if it exists, then
\* unlinkSync(outputPath) if it exists.  `fault` names the unlink that throws;
\* a throw at the first statement skips the second.
InputUnlinkThrows(f, inP, fault) ==
    inP # NoPath /\ f[inP] # NONE /\ fault = "input"

CleanupFiles(f, inP, outP, fault) ==
    LET f1 == IF inP # NoPath /\ f[inP] # NONE /\ fault # "input"
              THEN [f EXCEPT ![inP] = NONE] ELSE f
    IN  IF InputUnlinkThrows(f, inP, fault) THEN f1
        ELSE IF outP # NoPath /\ f1[outP] # NONE /\ fault # "output"
             THEN [f1 EXCEPT ![outP] = NONE] ELSE f1

CleanupThrew(f, inP, outP, fault) ==
    \/ InputUnlinkThrows(f, inP, fault)
    \/ outP # NoPath /\ f[outP] # NONE /\ fault = "output"

UnlinkFaults == {"none", "input", "output"}

\* The paths unlinkSync is called on: the input path if it exists; the output
\* path if it exists and the first statement did not throw.
CleanupAttempts(f, inP, outP, fault) ==
    (IF inP # NoPath /\ f[inP] # NONE THEN {inP} ELSE {})
    \cup (IF ~InputUnlinkThrows(f, inP, fault) /\ outP # NoPath /\ f[outP] # NONE
          THEN {outP} ELSE {})

\* How the finally block ended.
CleanupEnd(f, inP, outP, fault) ==
    IF InputUnlinkThrows(f, inP, fault) THEN "threw-input"
    ELSE IF CleanupThrew(f, inP, outP, fault) THEN "threw-output"
    ELSE "ran"

\* A slip in the error handling: a throw from the finally block reported to
\* the caller in place of the outcome.
ResponseAfterCleanupMasked(resp, threw) ==
    IF threw
    THEN [status |-> StatusServerError, bodyKey |-> NoKey, error |-> "cleanup"]
    ELSE resp

\* res.json / res.status(..).json have run before the finally block starts:
\* what the finally block does, or throws, does not reach the response.
ResponseAfterCleanup(resp, threw) == resp

\* A slip in the catch block: "rolling back" by deleting the located object.
CatchStoreRetires(st, jb) ==
    IF jb.key # NoKey THEN deleteObject(st, jb.key) ELSE st

\* The catch block logs the error and responds 500: it issues no store request.
CatchStore(st, jb) == st

\* The end of the handler: the try block has responded (200 or 404), or the
\* catch block has (500); then the finally block runs on the files f.  A throw
\* from the finally block rejects the handler's promise with nobody awaiting
\* it; whether that ends the process depends on the runtime's
\* unhandled-rejection policy (crash).
Finish(j, jb, st, f, status, bodyKey, error, fault, crash) ==
    LET threw == CleanupThrew(f, jb.inputPath, jb.outputPath, fault)
        resp == ResponseAfterCleanup(
                    [status |-> status, bodyKey |-> bodyKey, error |-> error],
                    threw)
    IN  /\ fault = "none" \/ (threw /\ faults < MaxFaults)
        /\ crash => threw
        /\ store' = IF status = StatusServerError THEN CatchStore(st, jb) ELSE st
        /\ files' = CleanupFiles(f, jb.inputPath, jb.outputPath, fault)
        /\ faults' = IF threw THEN faults + 1 ELSE faults
        /\ alive' = (alive /\ ~crash)
        /\ job' = [job EXCEPT ![j] =
                     [jb EXCEPT !.pc = "done", !.status = resp.status,
                                !.bodyKey = resp.bodyKey, !.error = resp.error,
                                !.responses = jb.responses + 1,
                                !.stages = Append(jb.stages, "cleanup"),
                                !.cleanup = CleanupEnd(f, jb.inputPath,
                                                       jb.outputPath, fault),
                                !.unlinks = CleanupAttempts(f, jb.inputPath,
                                                            jb.outputPath, fault)]]

\* The handler suspends at its next await, in state jb, with files f.
Suspend(j, jb, st, f, fault, crash) ==
    /\ fault = "none" /\ ~crash
    /\ store' = st
    /\ files' = f
    /\ job' = [job EXCEPT ![j] = jb]
    /\ UNCHANGED <<alive, faults>>

\* ------------------------------------------------------------------ locate
\* app.post('/api/transcode'): the handler starts and calls listObjects().
Invoke(j) ==
    /\ alive
    /\ FreeSlot(j)
    /\ job' = [job EXCEPT ![j] =
                 [IdleJob EXCEPT !.pc = "list", !.stages = <<"locate">>,
                                 !.store0 = store]]
    /\ UNCHANGED <<store, files, now, alive, faults, r2>>

\* listObjects() settles.  On a listing with a video the handler derives the
\* scratch paths, opens the write stream on the input path and sends the GET.
ListDone(j) ==
    /\ alive
    /\ job[j].pc = "list"
    /\ \E outcome \in {"ok", "fail"}, fault \in UnlinkFaults, crash \in BOOLEAN :
         LET jb == [job[j] EXCEPT !.ls = outcome]
             videoObj == FindVideo(listObjects(store))
             inP == InputPathOf(now, ExtOf(videoObj))
             outP == OutputPathOf(now)
         IN  IF outcome = "fail"
             THEN Finish(j, jb, store, files, StatusServerError, NoKey, "list",
                         fault, crash)
             ELSE IF videoObj = NoKey
             THEN Finish(j, jb, store, files, StatusNotFound, NoKey, "notfound",
                         fault, crash)
             ELSE Suspend(j, [jb EXCEPT !.pc = "download", !.key = videoObj,
                                        !.inputPath = inP, !.outputPath = outP,
                                        !.created = {inP},
                                        !.stages = Append(jb.stages, "download")],
                          store, [files EXCEPT ![inP] = "junk"], fault, crash)
    /\ UNCHANGED <<now, r2>>

\* ---------------------------------------------------------------- download
\* new Promise(...) around mod.get: the classes of what the GET can yield.
\*   "2xx"      a success response whose body is the object
\*   "non2xx"   a 4xx/5xx response, or a 3xx without a Location header
\*   "redirect" a 3xx response with a Location header
\*   "badlocation" a 3xx response whose Location mod.get cannot request (a
\*              relative URL, or the other protocol than mod's)
\*   "neterr"   the request emits 'error'
\*   "fserr"    the write stream emits 'error' (open or write fails)
\*   "aborted"  the response stream fails after the headers arrived
ResponseClasses ==
    {"2xx", "non2xx", "redirect", "badlocation", "neterr", "fserr", "aborted"}

\* if (statusCode >= 300 && statusCode < 400 && headers.location), in the
\* callback of the original GET only: the redirected GET's callback has no
\* such test.
FollowsRedirect(class, first) == class \in {"redirect", "badlocation"} /\ first

\* response.pipe(file) ends the file, which then emits 'finish', when the
\* response ends; a response stream that fails, or a request that never got a
\* response, does not end it, and a write-stream error precludes 'finish'.
FileFinishes(class) == class \in {"2xx", "non2xx", "redirect", "badlocation"}

\* A slip in the download promise: resolving when the response closes, which
\* a failed response stream does too.
ResolvesOnResponseClose(class) == FileFinishes(class) \/ class = "aborted"

\* file.on('finish', () => file.close(resolve)): the promise resolves from
\* the callback of file.close, once the file has finished.
Resolves(class) == FileFinishes(class)

\* The transcoder is spawned right after the download promise resolves:
\* execFile('ffmpeg', ['-i', inputPath, ..., '-y', outputPath]).
SpawnTranscoder(jb) ==
    [jb EXCEPT !.pc = "ffmpeg", !.stages = Append(jb.stages, "transcode")]

\* What the handler does with a response of class `class`; `first` tells the
\* response to the original GET from the response to the redirected GET.
\*  - only 'error' of the request rejects the promise;
\*  - the callback pipes any response that is not a followed redirect into
\*    the file, whatever its status, and resolves on the file's 'finish';
\*  - the write stream has no 'error' listener: its error is an uncaught
\*    exception, which ends the process before catch or finally can run
\*    (the file is absent if the open failed, partly written otherwise);
\*  - mod.get(location) throws on a Location it cannot request, inside the
\*    response callback: an uncaught exception as well;
\*  - a response stream that fails never ends the file: nothing settles.
HandleResponse(j, class, first, left, fault, crash) ==
    LET jb == [job[j] EXCEPT !.dl = class]
        inP == jb.inputPath
    IN  CASE class = "neterr" ->
               /\ left = "junk"
               /\ Finish(j, jb, store, files, StatusServerError, NoKey,
                         "download", fault, crash)
          [] FollowsRedirect(class, first) /\ class = "badlocation" ->
               /\ fault = "none" /\ ~crash /\ left = "junk"
               /\ alive' = FALSE
               /\ job' = [job EXCEPT ![j] = [jb EXCEPT !.pc = "crashed"]]
               /\ UNCHANGED <<store, files, faults>>
          [] FollowsRedirect(class, first) ->
               /\ left = "junk"
               /\ Suspend(j, [jb EXCEPT !.pc = "redirected",
                                        !.redirects = jb.redirects + 1],
                          store, files, fault, crash)
          [] class = "fserr" ->
               /\ fault = "none" /\ ~crash
               /\ files' = [files EXCEPT ![inP] = left]
               /\ alive' = FALSE
               /\ job' = [job EXCEPT ![j] = [jb EXCEPT !.pc = "crashed"]]
               /\ UNCHANGED <<store, faults>>
          [] Resolves(class) ->
               /\ left = "junk"
               /\ class = "2xx" => store[jb.key] # NONE
               /\ Suspend(j, SpawnTranscoder(
                                 [jb EXCEPT !.closed = FileFinishes(class)]),
                          store,
                          [files EXCEPT ![inP] =
                              IF class = "2xx" THEN "media" ELSE "junk"],
                          fault, crash)
          [] OTHER ->
               /\ left = "junk"
               /\ Suspend(j, [jb EXCEPT !.pc = "stalled"], store,
                          [files EXCEPT ![inP] = "junk"], fault, crash)

\* The response to mod.get(videoUrl, ...) arrives, or the request fails.
DownloadDone(j) ==
    /\ alive
    /\ job[j].pc = "download"
    /\ \E class \in ResponseClasses, left \in {NONE, "junk"},
          fault \in UnlinkFaults, crash \in BOOLEAN :
         HandleResponse(j, class, TRUE, left, fault, crash)
    /\ UNCHANGED <<now, r2>>

\* The response to mod.get(response.headers.location, ...) arrives, or fails.
RedirectDone(j) ==
    /\ alive
    /\ job[j].pc = "redirected"
    /\ \E class \in ResponseClasses, left \in {NONE, "junk"},
          fault \in UnlinkFaults, crash \in BOOLEAN :
         HandleResponse(j, class, FALSE, left, fault, crash)
    /\ UNCHANGED <<now, r2>>

\* --------------------------------------------------------------- transcode
\* execFile's callback runs.  "exit0" needs a media input; "nonzero" may leave
\* a partial output file; "spawn" is a failure to start the process.  After
\* exit 0 the handler evaluates uploadFile('video.mp4', outputPath,
\* 'video/mp4'): calling undefined throws a TypeError into the catch block.
FFmpegExit(j) ==
    /\ alive
    /\ job[j].pc = "ffmpeg"
    /\ \E outcome \in {"exit0", "nonzero", "spawn"}, wrote \in BOOLEAN,
          fault \in UnlinkFaults, crash \in BOOLEAN :
         LET jb == [job[j] EXCEPT !.ff = outcome]
             outP == jb.outputPath
             wrotejb == [jb EXCEPT !.created = jb.created \cup {outP}]
             published == [wrotejb EXCEPT !.stages = Append(jb.stages, "publish")]
         IN  CASE outcome = "exit0" /\ UploadFileIsFunction ->
                    /\ files[jb.inputPath] = "media" /\ wrote
                    /\ Suspend(j, [published EXCEPT !.pc = "upload",
                                                    !.puts = {CanonicalKey}],
                               store, [files EXCEPT ![outP] = "aac"], fault, crash)
               [] outcome = "exit0" /\ ~UploadFileIsFunction ->
                    /\ files[jb.inputPath] = "media" /\ wrote
                    /\ Finish(j, [published EXCEPT !.up = "typeerror"], store,
                              [files EXCEPT ![outP] = "aac"],
                              StatusServerError, NoKey, "typeerror", fault, crash)
               [] outcome = "nonzero" ->
                    Finish(j, IF wrote THEN wrotejb ELSE jb, store,
                           IF wrote THEN [files EXCEPT ![outP] = "junk"] ELSE files,
                           StatusServerError, NoKey, "transcode", fault, crash)
               [] OTHER ->
                    /\ ~wrote
                    /\ Finish(j, jb, store, files, StatusServerError, NoKey,
                              "transcode", fault, crash)
    /\ UNCHANGED <<now, r2>>

\* ------------------------------------------------------------------ publish
\* A slip in the retire test: comparing the lower-cased extension instead of
\* the key, so that video.MP4 counts as already canonical.
MustRetireByExtension(key) == ExtOf(key) # "mp4"

\* A slip in the retire step: deleting the located object unconditionally.
MustRetireAlways(key) == TRUE

\* if (videoObj.Key !== 'video.mp4'): the original is to be deleted.
MustRetire(key) == key # CanonicalKey

\* await uploadFile(...) settles; then the retire decision, or the response.
UploadDone(j) ==
    /\ alive
    /\ job[j].pc = "upload"
    /\ \E outcome \in {"ok", "fail"}, fault \in UnlinkFaults, crash \in BOOLEAN :
         LET jb == [job[j] EXCEPT !.up = outcome]
             put == uploadFile(store, CanonicalKey, files[jb.outputPath])
         IN  IF outcome = "fail"
             THEN Finish(j, jb, store, files, StatusServerError, NoKey, "upload",
                         fault, crash)
             ELSE /\ files[jb.outputPath] # NONE
                  /\ IF MustRetire(jb.key)
                     THEN Suspend(j, [jb EXCEPT !.pc = "delete",
                                                !.stages = Append(jb.stages, "retire"),
                                                !.dels = {jb.key}],
                                  put, files, fault, crash)
                     ELSE Finish(j, jb, put, files, StatusOk, CanonicalKey, NONE,
                                 fault, crash)
    /\ UNCHANGED <<now, r2>>

\* await deleteObject(videoObj.Key) settles: a rejection goes to the catch
\* block like any other.
DeleteDone(j) ==
    /\ alive
    /\ job[j].pc = "delete"
    /\ \E outcome \in {"ok", "fail"}, fault \in UnlinkFaults, crash \in BOOLEAN :
         LET jb == [job[j] EXCEPT !.rm = outcome]
         IN  IF outcome = "fail"
             THEN Finish(j, jb, store, files, StatusServerError, NoKey, "delete",
                         fault, crash)
             ELSE Finish(j, jb, deleteObject(store, jb.key), files, StatusOk,
                         CanonicalKey, NONE, fault, crash)
    /\ UNCHANGED <<now, r2>>

\* The request is over: its response has been delivered, its locals are gone.
Return(j) ==
    /\ alive
    /\ job[j].pc = "done"
    /\ job' = [job EXCEPT ![j] = IdleJob]
    /\ UNCHANGED <<store, files, now, alive, faults, r2>>

\* ------------------------------------------------------------- environment
\* Time passes.
Tick ==
    /\ now < MaxClock
    /\ now' = now + 1
    /\ UNCHANGED <<store, files, alive, faults, r2, job>>

\* POST /api/upload-url: key = `${category}.${ext}` with the file name's
\* extension lower-cased; the client then PUTs the file to the signed URL.
UploadExts == [video |-> {"mov", "mp4", "MP4"}, subtitle |-> {"vtt", "VTT"}]

UploadKey(category, fileExt) == <<category, ToLowerCase(fileExt)>>

\* The request that has put video.mp4 and not yet ended sees the upload of
\* `key` happen after its publish.
NoteUpload(jb, key) ==
    IF jb.pc = "delete" THEN [jb EXCEPT !.later = jb.later \cup {key}] ELSE jb

UploadViaUrl ==
    /\ alive
    /\ \E category \in {"video", "subtitle"} :
         \E fileExt \in UploadExts[category] :
            LET key == UploadKey(category, fileExt)
            IN  /\ store' = [store EXCEPT ![key] = "raw"]
                /\ job' = [j \in Jobs |-> NoteUpload(job[j], key)]
    /\ UNCHANGED <<files, now, alive, faults, r2>>

\* DELETE /api/video: deleteObject on every listed key, in parallel; each
\* delete succeeds or fails on its own.
ClearAll ==
    /\ alive
    /\ \E deleted \in SUBSET {k \in Keys : store[k] # NONE} :
         store' = [k \in Keys |-> IF k \in deleted THEN NONE ELSE store[k]]
    /\ UNCHANGED <<files, now, alive, faults, r2, job>>

\* ----------------------------------------------------------- specifications
\* The steps of one request, common to every specification.
Step(j) ==
    \/ ListDone(j)
    \/ DownloadDone(j)
    \/ RedirectDone(j)
    \/ FFmpegExit(j)
    \/ Return(j)

\* Requests, uploads and clears one at a time, against r2.js as it is: the
\* handler never gets past its call of uploadFile.
Next ==
    \/ \E j \in Jobs : NoneInFlight /\ Invoke(j)
    \/ \E j \in Jobs : Step(j)
    \/ Tick
    \/ NoneInFlight /\ UploadViaUrl
    \/ NoneInFlight /\ ClearAll

Spec == Init /\ [][Next]_vars

\* The same with an r2 module that also exports uploadFile, as the store
\* client's put(key, localPath, contentType) is described.
InitPut == InitCommon /\ r2 = R2Exports \cup {"uploadFile"}

NextPut ==
    \/ Next
    \/ \E j \in Jobs : UploadDone(j)
    \/ \E j \in Jobs : DeleteDone(j)

SpecPut == InitPut /\ [][NextPut]_vars

\* Requests overlapping in time, against r2.js as it is: a request arrives
\* whenever a slot is idle, and the handlers' steps interleave.
NextConc ==
    \/ \E j \in Jobs : Invoke(j)
    \/ \E j \in Jobs : Step(j)
    \/ Tick
    \/ NoneInFlight /\ UploadViaUrl

\* In this specification no unlinkSync fails (the environment's allowance is
\* spent from the start): the overlap of the handlers is what it explores.
InitConc ==
    /\ store \in InitialStores
    /\ files = NoFiles
    /\ now = 0
    /\ alive = TRUE
    /\ faults = MaxFaults
    /\ r2 = R2Exports
    /\ job = [j \in Jobs |-> IdleJob]

SpecConc == InitConc /\ [][NextConc]_vars

\* One transcode request at a time, with uploads through issued URLs landing
\* at any moment of it, uploadFile in place and no unlinkSync failing.
NextRace ==
    \/ \E j \in Jobs : NoneInFlight /\ Invoke(j)
    \/ \E j \in Jobs : Step(j)
    \/ \E j \in Jobs : UploadDone(j)
    \/ \E j \in Jobs : DeleteDone(j)
    \/ Tick
    \/ UploadViaUrl

InitRace ==
    /\ store \in InitialStores
    /\ files = NoFiles
    /\ now = 0
    /\ alive = TRUE
    /\ faults = MaxFaults
    /\ r2 = R2Exports \cup {"uploadFile"}
    /\ job = [j \in Jobs |-> IdleJob]

SpecRace == InitRace /\ [][NextRace]_vars

\* The same as Spec from a store that holds nothing yet: every object then
\* comes from an upload through an issued URL.
InitFresh == Init /\ store = EmptyStore

SpecFresh == InitFresh /\ [][Next]_vars

TypeOK ==
    /\ store \in [Keys -> ObjContent \cup {NONE}]
    /\ files \in [Paths -> FileContent \cup {NONE}]
    /\ now \in Clock
    /\ alive \in BOOLEAN
    /\ faults \in 0..MaxFaults
    /\ \A j \in Jobs :
         /\ job[j].pc \in {"idle", "list", "download", "redirected", "ffmpeg",
                           "upload", "delete", "done", "stalled", "crashed"}
         /\ job[j].status \in {0, StatusOk, StatusNotFound, StatusServerError}

\* ================================================================== claims
Done(j) == job[j].pc = "done"

\* The invocation is over: its handler ran to its end, or the process died
\* under it.
Terminated(j) == job[j].pc \in {"done", "crashed"}

NoScratchLeft(j) == \A p \in job[j].created : files[p] = NONE

NoVideoIn(st) == \A k \in Keys : k[1] = "video" => st[k] = NONE

\* The stage whose failure ended the pipeline, NONE if no stage failed.
FailedStage(jb) ==
    CASE jb.ls = "fail" \/ (jb.ls = "ok" /\ jb.key = NoKey) -> "locate"
      [] jb.dl \in {"neterr", "fserr", "aborted"} -> "download"
      [] jb.ff \in {"nonzero", "spawn"} -> "transcode"
      [] jb.up \in {"fail", "typeerror"} -> "publish"
      [] OTHER -> NONE

\* The stage the reported error belongs to.
ReportedStage(error) ==
    CASE error \in {"list", "notfound"} -> "locate"
      [] error = "download" -> "download"
      [] error = "transcode" -> "transcode"
      [] error \in {"typeerror", "upload"} -> "publish"
      [] error = "delete" -> "retire"
      [] OTHER -> NONE

StageOrder == <<"locate", "download", "transcode", "publish", "retire">>

StageIndex(stage) == CHOOSE i \in 1..Len(StageOrder) : StageOrder[i] = stage

\* No stage after `stage` was begun.
NothingAfter(jb, stage) ==
    \A i \in 1..Len(jb.stages) :
        jb.stages[i] = "cleanup" \/ StageIndex(jb.stages[i]) <= StageIndex(stage)

\* C1 (as claimed): once an invocation has terminated, in whatever stage, no
\* scratch file that it created exists on local storage.
\* Fails: an unlinkSync that throws at the first statement of the finally block
\* skips the second, and a write-stream error ends the process before the
\* finally block.
C1_NoScratchAfterTermination ==
    \A j \in Jobs : Terminated(j) => NoScratchLeft(j)

\* C2 (as claimed): with a source key other than video.mp4 and the download,
\* the transcoder and the store all succeeding, the pipeline puts video.mp4,
\* deletes the source key and responds 200 with key video.mp4.
\* Fails: uploadFile is not exported by r2.js, so the call throws a TypeError.
C2_ConvertsAndReportsSuccess ==
    \A j \in Jobs :
        ( /\ Done(j)
          /\ job[j].key \notin {NoKey, CanonicalKey}
          /\ job[j].dl = "2xx" /\ job[j].ff = "exit0"
          /\ job[j].up # "fail" /\ job[j].rm # "fail" )
        => ( /\ job[j].status = StatusOk
             /\ job[j].bodyKey = CanonicalKey
             /\ CanonicalKey \in job[j].puts /\ store[CanonicalKey] # NONE
             /\ job[j].key \in job[j].dels /\ store[job[j].key] = NONE )

\* C3: an invocation that reports success leaves an object keyed exactly
\* video.mp4 in the store, and no object under the located source key when
\* that key was not video.mp4.
C3_SuccessMeansPublished ==
    \A j \in Jobs :
        (Done(j) /\ job[j].status = StatusOk)
        => ( /\ store[CanonicalKey] # NONE
             /\ job[j].key # CanonicalKey => store[job[j].key] = NONE )

C3_Witness ==
    \E j \in Jobs :
        /\ Done(j) /\ job[j].status = StatusOk
        /\ job[j].key = VideoMP4Upper
        /\ store[CanonicalKey] = "aac"

\* C4 (as claimed): when the put of video.mp4 succeeded and the delete of the
\* source failed, the invocation still responds 200 with key video.mp4 and
\* video.mp4 is in the store.
\* Fails: the rejected deleteObject lands in the catch block, which responds 500.
C4_DeleteFailureStillSuccess ==
    \A j \in Jobs :
        (Done(j) /\ job[j].up = "ok" /\ job[j].rm = "fail")
        => ( /\ job[j].status = StatusOk
             /\ job[j].bodyKey = CanonicalKey
             /\ store[CanonicalKey] # NONE )

\* C5: when the listing comes back without any key starting with 'video.',
\* the handler is finished at once with status 404: no scratch path, no
\* scratch file, no download and no transcoder.
C5_NoVideoNotFound ==
    \A j \in Jobs :
        (job[j].ls = "ok" /\ NoVideoIn(job[j].store0))
        => ( /\ Done(j)
             /\ job[j].status = StatusNotFound
             /\ job[j].inputPath = NoPath /\ job[j].outputPath = NoPath
             /\ job[j].created = {}
             /\ job[j].stages = <<"locate", "cleanup">>
             /\ job[j].dl = NONE /\ job[j].ff = NONE )

C5_Witness ==
    \E j \in Jobs :
        /\ job[j].ls = "ok" /\ NoVideoIn(job[j].store0)
        /\ job[j].store0[SubtitleVtt] # NONE
        /\ job[j].status = StatusNotFound

\* C6: once the download or the transcoder has failed, the invocation has
\* issued no put and no delete, and the store is what it was when the
\* invocation began.
C6_EarlyFailureLeavesStore ==
    \A j \in Jobs :
        (job[j].dl \in {"neterr", "fserr", "aborted"}
            \/ job[j].ff \in {"nonzero", "spawn"})
        => (job[j].puts = {} /\ job[j].dels = {} /\ store = job[j].store0)

C6_Witness ==
    \E j \in Jobs :
        /\ Done(j) /\ job[j].ff = "nonzero" /\ job[j].dl = "2xx"
        /\ job[j].status = StatusServerError
        /\ store[job[j].key] # NONE

\* C7: when the publish step fails, the invocation does not report success,
\* has issued no delete, and the store is what it was when the invocation
\* began, the source object included.
C7_FailedPublishLeavesStore ==
    \A j \in Jobs :
        (Done(j) /\ job[j].up \in {"fail", "typeerror"})
        => ( /\ job[j].status # StatusOk /\ job[j].bodyKey = NoKey
             /\ job[j].dels = {}
             /\ store[job[j].key] # NONE
             /\ store = job[j].store0 )

C7_Witness ==
    \E j \in Jobs :
        /\ Done(j) /\ job[j].up = "typeerror"
        /\ job[j].key = VideoMov /\ store[VideoMov] = "raw"

\* C8 (as claimed): whenever a stage fails, no later stage is begun, the
\* cleanup step runs, and the failure reported is that first failure.
\* Fails: a write-stream error during the download ends the process: neither
\* the catch nor the finally block runs.
C8_FailureShortCircuits ==
    \A j \in Jobs :
        (Terminated(j) /\ FailedStage(job[j]) # NONE)
        => ( /\ NothingAfter(job[j], FailedStage(job[j]))
             /\ job[j].cleanup # NONE
             /\ ReportedStage(job[j].error) = FailedStage(job[j]) )

\* What does hold of C8: a failure that reaches the handler as a rejection or
\* a throw is reported as it is, after no further stage and with the cleanup.
RejectionShortCircuits ==
    \A j \in Jobs :
        (Done(j) /\ FailedStage(job[j]) # NONE)
        => ( /\ NothingAfter(job[j], FailedStage(job[j]))
             /\ job[j].cleanup # NONE
             /\ ReportedStage(job[j].error) = FailedStage(job[j]) )

\* C9 (as claimed): a network error, a response that is neither 2xx nor a
\* redirect, or a failure to write the file ends the job with a download
\* failure: the transcoder is not spawned and the cleanup runs.
\* Fails: the status of a piped response is never looked at, and the write
\* stream has no 'error' listener.
C9_DownloadFailureAborts ==
    \A j \in Jobs :
        job[j].dl \in {"neterr", "non2xx", "fserr"}
        => ( /\ Done(j)
             /\ job[j].error = "download"
             /\ job[j].ff = NONE
             /\ job[j].cleanup # NONE )

\* C10 (as claimed): when the redirected GET is answered by a redirect again,
\* the pipeline ends with a download failure, spawns no transcoder and leaves
\* no scratch file.
\* Fails: the second redirect's body is piped into the input file and the
\* transcoder is spawned on it.
C10_RedirectChainFails ==
    \A j \in Jobs :
        (job[j].dl = "redirect" /\ job[j].pc # "redirected")
        => ( /\ Done(j)
             /\ job[j].error = "download"
             /\ "transcode" \notin {job[j].stages[i] : i \in 1..Len(job[j].stages)}
             /\ NoScratchLeft(j) )

\* The invocation holds scratch paths and has not finished.
InFlight(j) == job[j].inputPath # NoPath /\ job[j].pc \notin {"idle", "done"}

\* C11 (as claimed): two invocations in flight at the same time never have the
\* same input path nor the same output path.
\* Fails: the only discriminator is Date.now(), which two handlers read in the
\* same millisecond.
C11_ScratchPathsDistinct ==
    \A i, j \in Jobs :
        (i # j /\ InFlight(i) /\ InFlight(j))
        => ( /\ job[i].inputPath # job[j].inputPath
             /\ job[i].outputPath # job[j].outputPath )

\* The status the outcome category calls for: not-found when the listing held
\* no video, server-error when a stage failed, ok otherwise.
ExpectedStatus(jb) ==
    CASE jb.ls = "ok" /\ jb.key = NoKey -> StatusNotFound
      [] FailedStage(jb) # NONE \/ jb.rm = "fail" -> StatusServerError
      [] OTHER -> StatusOk

\* C12 (as claimed): every invocation that is over has sent exactly one
\* response, whose status is the one its outcome category calls for and whose
\* key is video.mp4 on success.
\* Fails: after a write-stream error during the download the process has ended
\* without any response (see C9).
C12_OneResponsePerInvocation ==
    \A j \in Jobs :
        Terminated(j)
        => ( /\ job[j].responses = 1
             /\ job[j].status = ExpectedStatus(job[j])
             /\ (job[j].status = StatusOk) = (job[j].bodyKey = CanonicalKey) )

\* What does hold of C12: a handler that ran to its end has responded once,
\* with the status of its outcome category.
CompletedRespondsOnce ==
    \A j \in Jobs :
        Done(j)
        => ( /\ job[j].responses = 1
             /\ job[j].status = ExpectedStatus(job[j])
             /\ (job[j].status = StatusOk) = (job[j].bodyKey = CanonicalKey) )

\* The stages begun, the cleanup left out.
PipelineStages(jb) == SelectSeq(jb.stages, LAMBDA st : st # "cleanup")

Began(jb, stage) == \E i \in 1..Len(jb.stages) : jb.stages[i] = stage

\* C13: the stages begun are an initial part of locate, download, transcode,
\* publish, retire, in that order; the transcoder is spawned only on an input
\* file that has finished and been closed, the publish is begun only after the
\* transcoder exited with 0, and the delete of the source is issued only after
\* the put has completed.
C13_StagesInOrder ==
    \A j \in Jobs :
        LET jb == job[j]
            ps == PipelineStages(jb)
        IN  /\ Len(ps) <= Len(StageOrder)
            /\ \A i \in 1..Len(ps) : ps[i] = StageOrder[i]
            /\ Began(jb, "transcode") => jb.closed
            /\ Began(jb, "publish") => jb.ff = "exit0"
            /\ jb.puts # {} => jb.ff = "exit0"
            /\ Began(jb, "retire") => (jb.up = "ok" /\ store[CanonicalKey] = "aac")
            /\ jb.dels # {} => jb.up = "ok"

C13_Witness ==
    \E j \in Jobs :
        /\ Done(j) /\ job[j].rm = "ok"
        /\ PipelineStages(job[j]) = StageOrder
        /\ job[j].closed

CleanupFailed(jb) == jb.cleanup \in {"threw-input", "threw-output"}

\* C14: when an unlinkSync of the finally block throws, the one response the
\* caller got is still the one the stages determined: 200 with key video.mp4
\* on success, otherwise 500 reporting the stage that failed.
C14_CleanupFailureKeepsOutcome ==
    \A j \in Jobs :
        (Done(j) /\ CleanupFailed(job[j]))
        => ( /\ job[j].responses = 1
             /\ job[j].status = ExpectedStatus(job[j])
             /\ job[j].status = StatusOk
                  => (job[j].bodyKey = CanonicalKey /\ job[j].error = NONE)
             /\ job[j].status # StatusOk
                  => ( /\ job[j].bodyKey = NoKey
                       /\ ReportedStage(job[j].error) # NONE
                       /\ FailedStage(job[j]) # NONE
                            => ReportedStage(job[j].error) = FailedStage(job[j]) ) )

C14_Witness ==
    \E j \in Jobs :
        /\ Done(j) /\ job[j].cleanup = "threw-output"
        /\ job[j].status = StatusOk
        /\ files[job[j].outputPath] # NONE

\* C15 (as claimed): when the unlinkSync of the input file throws, unlinkSync
\* is still called on an output file that exists.
\* Fails: the two calls are consecutive statements of one finally block with
\* no try around either, so the throw of the first skips the second.
C15_InputFailureStillTriesOutput ==
    \A j \in Jobs :
        ( /\ Done(j) /\ job[j].cleanup = "threw-input"
          /\ job[j].outputPath \in job[j].created )
        => job[j].outputPath \in job[j].unlinks

ObjectsOf(category) == {k \in Keys : k[1] = category /\ store[k] # NONE}

\* C16 (as claimed): with uploads through issued URLs, transcode runs and
\* clears taken one at a time from an empty store, the store never holds more
\* than one object under 'video.' nor more than one under 'subtitle.'.
\* Fails: the upload key carries the file's extension and nothing removes the
\* object uploaded before under another extension.
C16_OneObjectPerPrefix ==
    /\ Cardinality(ObjectsOf("video")) <= 1
    /\ Cardinality(ObjectsOf("subtitle")) <= 1

\* C17: once the put has succeeded, the handler has issued a delete of the
\* located key exactly when that key is not 'video.mp4', compared with case;
\* before that it has issued none.  So a run on video.mp4 ends with the
\* published video.mp4 in the store, and a run on video.MP4 or video.mov
\* whose delete succeeded ends without the source.
C17_RetiresExactlyOtherKeys ==
    \A j \in Jobs :
        /\ job[j].up = "ok"
             => job[j].dels = (IF job[j].key # CanonicalKey THEN {job[j].key}
                               ELSE {})
        /\ job[j].up # "ok" => job[j].dels = {}
        /\ (Done(j) /\ job[j].up = "ok" /\ job[j].key = CanonicalKey)
             => (job[j].status = StatusOk /\ store[CanonicalKey] = "aac")
        /\ (Done(j) /\ job[j].rm = "ok")
             => (job[j].key # CanonicalKey /\ store[job[j].key] = NONE)

C17_Witness ==
    \E j \in Jobs :
        /\ Done(j) /\ job[j].up = "ok" /\ job[j].key = VideoMp4
        /\ job[j].dels = {} /\ job[j].store0[VideoMp4] = "raw"
        /\ store[VideoMp4] = "aac"

\* C18 (as claimed): a video object that an upload wrote after the request's
\* publish is still in the store when the request has ended.
\* Fails: the delete is issued on the key captured at the locate step, so an
\* upload under that key between the put and the delete is deleted with it.
C18_LaterUploadSurvives ==
    \A j \in Jobs :
        Done(j) => \A k \in job[j].later : store[k] # NONE

\* The invocation has begun and has not reached the end of its handler.
Pending(j) == job[j].pc \notin {"idle", "done"}

\* C19 (as claimed), in the form a finite run can refute: an invocation that
\* is pending always has a step to take, so that with every awaited operation
\* settling it goes on to its response and its cleanup.
\* Fails: after a response stream that broke the download promise has no
\* event left to settle it, and after a write-stream error the process is
\* gone: the invocation is pending for ever, no response sent, no cleanup run.
C19_PendingCanProceed ==
    \A j \in Jobs : Pending(j) => ENABLED Step(j)

\* C20: a transcode invocation puts no key but video.mp4 and deletes no key
\* but the one it located; every other object, the subtitle in particular, is
\* in the store as it was when the invocation began, at each of its steps and
\* whichever way it ends.
C20_TouchesOnlyItsKeys ==
    \A j \in Jobs :
        job[j].pc # "idle"
        => ( /\ job[j].puts \subseteq {CanonicalKey}
             /\ job[j].dels \subseteq {job[j].key} \ {NoKey}
             /\ \A k \in Keys :
                  k \notin {CanonicalKey, job[j].key} => store[k] = job[j].store0[k]
             /\ job[j].puts = {} => store[CanonicalKey] = job[j].store0[CanonicalKey]
             /\ job[j].dels = {}
                  => \A k \in Keys \ {CanonicalKey} : store[k] = job[j].store0[k]
             /\ store[SubtitleVtt] = job[j].store0[SubtitleVtt] )

C20_Witness ==
    \E j \in Jobs :
        /\ Done(j) /\ job[j].rm = "ok" /\ job[j].key = VideoMP4Upper
        /\ job[j].store0[SubtitleVtt] = "raw" /\ store[SubtitleVtt] = "raw"
        /\ job[j].store0[VideoMov] = "raw" /\ store[VideoMov] = "raw"

====
